---- MODULE Spec2Model ----
(***************************************************************************)
(* scripts/run-ft-benchmark.py: concurrent invocations of main() on one    *)
(* host, sharing the lock file LOCK_FILE and the temporary directory tree. *)
(* Text is modelled as a sequence of one-character strings, so that the    *)
(* regular expressions, str.strip() and the shell's word splitting are     *)
(* computed rather than assumed.                                           *)
(***************************************************************************)
EXTENDS Integers, Sequences, FiniteSets, TLC

\* ---- bounds ----
NumProcs == 2
MaxLen == 3

Procs == 1..NumProcs

\* ---- text ----
Digits == {"0", "1", "2", "3", "4", "5", "6", "7", "8", "9"}
TimeUnits == {"h", "m", "s"}
StateUnits == {"K", "M", "G"}
Space == {" ", "\t", "\n"}
ShellBlank == {" ", "\t"}

\* the characters from which the raw --time / --state strings are drawn
Alphabet == {"1", "h", "K", "x", "\n"}

Strings(n) == UNION {[1..k -> Alphabet] : k \in 0..n}

RECURSIVE DigitRun(_)
\* length of the longest prefix of s matched by \d+ (greedy)
DigitRun(s) ==
    IF s # <<>> /\ Head(s) \in Digits THEN 1 + DigitRun(Tail(s)) ELSE 0

Rest(s, n) == SubSeq(s, n + 1, Len(s))

\* Python's '$' (no re.MULTILINE): the end of the string, or just before a
\* newline that is the last character of the string.
AtDollar(r) == r = <<>> \/ r = <<"\n">>

\* re.match(r'^(\d+)([hms])$', s): the two groups, or no match
TimeMatch(s) ==
    LET n == DigitRun(s)
        r == Rest(s, n)
    IN  IF n >= 1 /\ r # <<>> /\ Head(r) \in TimeUnits /\ AtDollar(Tail(r))
        THEN [matched |-> TRUE, g1 |-> SubSeq(s, 1, n), g2 |-> <<Head(r)>>]
        ELSE [matched |-> FALSE, g1 |-> <<>>, g2 |-> <<>>]

\* re.match(r'^(\d+)([KMG]?)$', s)
StateMatch(s) ==
    LET n == DigitRun(s)
        r == Rest(s, n)
    IN  IF n >= 1 /\ r # <<>> /\ Head(r) \in StateUnits /\ AtDollar(Tail(r))
        THEN [matched |-> TRUE, g1 |-> SubSeq(s, 1, n), g2 |-> <<Head(r)>>]
        ELSE IF n >= 1 /\ AtDollar(r)
        THEN [matched |-> TRUE, g1 |-> SubSeq(s, 1, n), g2 |-> <<>>]
        ELSE [matched |-> FALSE, g1 |-> <<>>, g2 |-> <<>>]

\* parse_time / parse_state: ok = FALSE is the raised ArgumentTypeError
parse_time(time_str) ==
    LET m == TimeMatch(time_str)
    IN  IF ~m.matched THEN [ok |-> FALSE, val |-> time_str]
        ELSE [ok |-> TRUE, val |-> m.g1 \o m.g2]

parse_state(state_str) ==
    LET m == StateMatch(state_str)
    IN  IF ~m.matched THEN [ok |-> FALSE, val |-> state_str]
        ELSE [ok |-> TRUE, val |-> m.g1 \o m.g2]

RECURSIVE LStrip(_)
LStrip(s) == IF s # <<>> /\ Head(s) \in Space THEN LStrip(Tail(s)) ELSE s

RECURSIVE RStrip(_)
RStrip(s) ==
    IF s # <<>> /\ s[Len(s)] \in Space THEN RStrip(SubSeq(s, 1, Len(s) - 1))
    ELSE s

\* str.strip()
Strip(s) == RStrip(LStrip(s))

Digit(d) == CASE d = 0 -> "0" [] d = 1 -> "1" [] d = 2 -> "2" [] d = 3 -> "3"
              [] d = 4 -> "4" [] d = 5 -> "5" [] d = 6 -> "6" [] d = 7 -> "7"
              [] d = 8 -> "8" [] d = 9 -> "9"

RECURSIVE IntToStr(_)
\* the f-string formatting of a non-negative int
IntToStr(n) ==
    IF n < 10 THEN <<Digit(n)>> ELSE IntToStr(n \div 10) \o <<Digit(n % 10)>>

\* the words /bin/sh splits an unquoted command line into: the maximal runs
\* of non-blank characters, in order
Words(s) ==
    LET starts == {i \in 1..Len(s) :
                      s[i] \notin ShellBlank /\ (i = 1 \/ s[i - 1] \in ShellBlank)}
        start(m) == CHOOSE i \in starts :
                        Cardinality({j \in starts : j < i}) = m - 1
        end(i) == CHOOSE k \in i..Len(s) :
                      /\ \A j \in i..k : s[j] \notin ShellBlank
                      /\ (k = Len(s) \/ s[k + 1] \in ShellBlank)
    IN  [m \in 1..Cardinality(starts) |-> SubSeq(s, start(m), end(start(m)))]


\* ---- the command line ----
NoCommit == <<>>
MasterTip == <<"f00ba4">>

DefaultArgv ==
    [time |-> <<"1", "h">>, users |-> 100, state |-> <<"1", "G">>,
     shards |-> 1, nodes |-> 1, rump_up |-> 5, user |-> <<"a">>,
     commit |-> NoCommit]

ScenarioArgv ==
    [time |-> <<"2", "h">>, users |-> 50, state |-> <<"2", "G">>,
     shards |-> 4, nodes |-> 2, rump_up |-> 10,
     user |-> <<"b", " ", "c", " ">>,
     commit |-> <<"abc123">>]

\* the command lines an invocation is started with
RunArgv ==
    <<DefaultArgv, ScenarioArgv,
      [DefaultArgv EXCEPT !.time = <<"4", "5">>],
      [ScenarioArgv EXCEPT !.state = <<"5", "0", "0", "X">>]>>

\* The command lines of the invocations. The invocations run the same code
\* and differ only in their number, so it is enough to hand out the command
\* lines in the order of RunArgv.
CommandLines ==
    {[p \in Procs |-> RunArgv[ix[p]]] :
        ix \in {f \in [Procs -> 1..Len(RunArgv)] :
                   \A p, q \in Procs : p < q => f[p] <= f[q]}}

\* one invocation given --time s or --state s, for every string s of at most
\* MaxLen characters; the other invocations are not looked at
ParseLines ==
    {[p \in Procs |-> IF p = 1 THEN a ELSE DefaultArgv] :
        a \in {[DefaultArgv EXCEPT !.time = s] : s \in Strings(MaxLen)} \cup
              {[DefaultArgv EXCEPT !.state = s] : s \in Strings(MaxLen)}}

\* markers left behind by an invocation that was killed mid-run
StaleHolders == {<<"b", " ", "c", " ">>}

\* ---- files ----
LOCK_FILE == "/tmp/run-ft-benchmark.lock"
REPO_URL == "https://github.com/near/nearcore"

NoFile == [exists |-> FALSE, content |-> <<>>, by |-> 0]

\* tempfile.mkdtemp(): a fresh directory, unique to the call
TempDir(p) == "/tmp/tmp" \o ToString(p)
\* os.path.join(temp_dir, "nearcore")
RepoDir(p) == TempDir(p) \o "/nearcore"
\* os.path.dirname of a repository directory
Dirname(d) ==
    IF \E q \in Procs : RepoDir(q) = d
    THEN TempDir(CHOOSE q \in Procs : RepoDir(q) = d) ELSE d
\* shutil.rmtree(d): d and everything below it
Tree(d) == {d} \cup {RepoDir(q) : q \in {r \in Procs : TempDir(r) = d}}

Unbound == ""
NoCwd == ""

\* f.write(user) on a file opened at offset 0
Overlay(u, c) == u \o Rest(c, Len(u))

NoExc == [type |-> "none", where |-> "none", text |-> <<>>]
AlreadyRunning(running_user) ==
    [type |-> "RuntimeError", where |-> "create_lock_file",
     text |-> running_user \o <<" already running benchmark">>]
CommandFailed(command) ==
    [type |-> "RuntimeError", where |-> "run_command",
     text |-> <<"Command '">> \o command \o <<"' failed with error: ">>]
FileNotFound(fn) ==
    [type |-> "FileNotFoundError", where |-> fn, text |-> <<LOCK_FILE>>]

NoArgs ==
    [time |-> <<>>, users |-> 0, state |-> <<>>, shards |-> 0, nodes |-> 0,
     rump_up |-> 0, user |-> <<>>, commit |-> NoCommit]

VARIABLES
    pc,           \* where each invocation of main() is
    argv,         \* the command line each invocation is started with
    args,         \* the parsed arguments (args = parser.parse_args())
    lock,         \* LOCK_FILE: existence, content, and who opened it for writing
    fdLive,       \* the file an invocation has open for writing is still LOCK_FILE
    dirs,         \* the directories that exist on disk
    repo_dir,     \* main()'s local repo_dir (Unbound until checkout_repo returns)
    commit,       \* the commit being checked out
    head,         \* the commit checked out in each invocation's clone
    exc,          \* the exception in flight
    printed,      \* what print(e) wrote
    cmds,         \* the commands run through run_command, with their cwd
    releaseCalls  \* how many times remove_lock_file was called

vars == <<pc, argv, args, lock, fdLive, dirs, repo_dir, commit, head, exc,
          printed, cmds, releaseCalls>>

InitWith(lines) ==
    /\ pc = [p \in Procs |-> "start"]
    /\ argv \in lines
    /\ args = [p \in Procs |-> NoArgs]
    /\ lock \in {NoFile} \cup
                {[exists |-> TRUE, content |-> u, by |-> 0] : u \in StaleHolders}
    /\ fdLive = [p \in Procs |-> FALSE]
    /\ dirs = {}
    /\ repo_dir = [p \in Procs |-> Unbound]
    /\ commit = [p \in Procs |-> NoCommit]
    /\ head = [p \in Procs |-> NoCommit]
    /\ exc = [p \in Procs |-> NoExc]
    /\ printed = [p \in Procs |-> <<>>]
    /\ cmds = [p \in Procs |-> <<>>]
    /\ releaseCalls = [p \in Procs |-> 0]

Init == InitWith(CommandLines)

InitParse == InitWith(ParseLines)

\* ---- main(): argument parsing ----
\* parser.parse_args() on command line a; a type function that raises makes
\* argparse print the usage and exit before the try block
ParseArgsOn_NoReject(p, a) ==
    /\ pc[p] = "start"
    /\ args' = [args EXCEPT ![p] = a]
    /\ pc' = [pc EXCEPT ![p] = "cl_check"]
    /\ UNCHANGED <<argv, lock, fdLive, dirs, repo_dir, commit, head, exc, printed,
                   cmds, releaseCalls>>

ParseArgsOn(p, a) ==
    LET t == parse_time(a.time)
        s == parse_state(a.state)
    IN  /\ pc[p] = "start"
        /\ IF t.ok /\ s.ok
           THEN /\ args' = [args EXCEPT ![p] = [a EXCEPT !.time = t.val,
                                                         !.state = s.val]]
                /\ pc' = [pc EXCEPT ![p] = "cl_check"]
           ELSE /\ args' = args
                /\ pc' = [pc EXCEPT ![p] = "usage_error"]
        /\ UNCHANGED <<argv, lock, fdLive, dirs, repo_dir, commit, head, exc,
                       printed, cmds, releaseCalls>>

ParseArgs(p) == ParseArgsOn(p, argv[p])

\* ---- create_lock_file ----
\* os.path.exists(LOCK_FILE)
ClCheck(p) ==
    /\ pc[p] = "cl_check"
    /\ pc' = [pc EXCEPT ![p] = IF lock.exists THEN "cl_read" ELSE "cl_open"]
    /\ UNCHANGED <<argv, args, lock, fdLive, dirs, repo_dir, commit, head,
                   exc, printed, cmds, releaseCalls>>

ClRead_Continue(p) ==
    /\ pc[p] = "cl_read"
    /\ exc' = [exc EXCEPT ![p] = AlreadyRunning(Strip(lock.content))]
    /\ pc' = [pc EXCEPT ![p] = "mkdtemp"]
    /\ UNCHANGED <<argv, args, lock, fdLive, dirs, repo_dir, commit, head,
                   printed, cmds, releaseCalls>>

ClRead_Overwrite(p) ==
    /\ pc[p] = "cl_read"
    /\ exc' = [exc EXCEPT ![p] = AlreadyRunning(Strip(lock.content))]
    /\ lock' = [exists |-> TRUE, content |-> args[p].user, by |-> p]
    /\ pc' = [pc EXCEPT ![p] = "except"]
    /\ UNCHANGED <<argv, args, fdLive, dirs, repo_dir, commit, head,
                   printed, cmds, releaseCalls>>

ClRead_Wait(p) ==
    /\ pc[p] = "cl_read"
    /\ IF lock.exists
       THEN /\ exc' = exc
            /\ pc' = [pc EXCEPT ![p] = "cl_check"]
       ELSE /\ exc' = [exc EXCEPT ![p] = FileNotFound("create_lock_file")]
            /\ pc' = [pc EXCEPT ![p] = "rm_check"]
    /\ UNCHANGED <<argv, args, lock, fdLive, dirs, repo_dir, commit, head,
                   printed, cmds, releaseCalls>>

\* open(LOCK_FILE, 'r'), f.read().strip(), raise RuntimeError
ClRead(p) ==
    /\ pc[p] = "cl_read"
    /\ IF lock.exists
       THEN /\ exc' = [exc EXCEPT ![p] = AlreadyRunning(Strip(lock.content))]
            /\ pc' = [pc EXCEPT ![p] = "except"]
       ELSE /\ exc' = [exc EXCEPT ![p] = FileNotFound("create_lock_file")]
            /\ pc' = [pc EXCEPT ![p] = "rm_check"]
    /\ UNCHANGED <<argv, args, lock, fdLive, dirs, repo_dir, commit, head,
                   printed, cmds, releaseCalls>>

\* open(LOCK_FILE, 'w'): creates the file, or truncates the one that is there
ClOpen(p) ==
    /\ pc[p] = "cl_open"
    /\ lock' = [exists |-> TRUE, content |-> <<>>, by |-> p]
    /\ fdLive' = [fdLive EXCEPT ![p] = TRUE]
    /\ pc' = [pc EXCEPT ![p] = "cl_write"]
    /\ UNCHANGED <<argv, args, dirs, repo_dir, commit, head, exc, printed,
                   cmds, releaseCalls>>

\* f.write(user) and the close that flushes it
ClWrite(p) ==
    /\ pc[p] = "cl_write"
    /\ lock' = IF fdLive[p]
               THEN [lock EXCEPT !.content = Overlay(args[p].user, @),
                                 !.by = p]
               ELSE lock
    /\ fdLive' = [fdLive EXCEPT ![p] = FALSE]
    /\ pc' = [pc EXCEPT ![p] = "mkdtemp"]
    /\ UNCHANGED <<argv, args, dirs, repo_dir, commit, head, exc, printed,
                   cmds, releaseCalls>>

\* ---- run_command ----
\* subprocess.run(command, shell=True, cwd=cwd): the shell runs the words of
\* the command line; the entry is what was executed and where
Executed(command, cwd) == [argv |-> Words(command), cwd |-> cwd]

\* one call of run_command by p: the command returns 0 (ok) or not
RunCommand(p, command, cwd, ok, next, failed) ==
    /\ cmds' = [cmds EXCEPT ![p] = Append(@, Executed(command, cwd))]
    /\ IF ok
       THEN /\ exc' = exc
            /\ pc' = [pc EXCEPT ![p] = next]
       ELSE /\ exc' = [exc EXCEPT ![p] = CommandFailed(command)]
            /\ pc' = [pc EXCEPT ![p] = failed]

GitConfigCmd ==
    <<"git", " ", "config", " ", "--global", " ", "http.postBuffer", " ",
      "524288000">>
GitCloneCmd(dir) == <<"git", " ", "clone", " ", REPO_URL, " ", dir>>
GitFetchCmd == <<"git", " ", "fetch">>
GitRevParseCmd == <<"git", " ", "rev-parse", " ", "origin/master">>
GitCheckoutCmd(c) == <<"git", " ", "checkout", " ">> \o c

\* ---- checkout_repo ----
\* temp_dir = tempfile.mkdtemp(); commit is the parameter args.commit
Mkdtemp(p) ==
    /\ pc[p] = "mkdtemp"
    /\ dirs' = dirs \cup {TempDir(p)}
    /\ commit' = [commit EXCEPT ![p] = args[p].commit]
    /\ pc' = [pc EXCEPT ![p] = "git_config"]
    /\ UNCHANGED <<argv, args, lock, fdLive, repo_dir, head, exc, printed,
                   cmds, releaseCalls>>

GitConfig(p) ==
    /\ pc[p] = "git_config"
    /\ \E ok \in BOOLEAN :
          RunCommand(p, GitConfigCmd, NoCwd, ok, "git_clone", "co_except")
    /\ UNCHANGED <<argv, args, lock, fdLive, dirs, repo_dir, commit, head,
                   printed, releaseCalls>>

\* a successful clone creates repo_dir
GitClone(p) ==
    /\ pc[p] = "git_clone"
    /\ \E ok \in BOOLEAN :
          /\ RunCommand(p, GitCloneCmd(RepoDir(p)), NoCwd, ok, "git_fetch",
                        "co_except")
          /\ dirs' = IF ok THEN dirs \cup {RepoDir(p)} ELSE dirs
    /\ UNCHANGED <<argv, args, lock, fdLive, repo_dir, commit, head, printed,
                   releaseCalls>>

\* after the fetch: "if not commit" chooses between rev-parse and checkout
GitFetch(p) ==
    /\ pc[p] = "git_fetch"
    /\ \E ok \in BOOLEAN :
          RunCommand(p, GitFetchCmd, RepoDir(p), ok,
                     IF commit[p] = <<>> THEN "git_revparse"
                     ELSE "git_checkout", "co_except")
    /\ UNCHANGED <<argv, args, lock, fdLive, dirs, repo_dir, commit, head,
                   printed, releaseCalls>>

\* commit = run_command("git rev-parse origin/master", cwd=repo_dir)
GitRevParse(p) ==
    /\ pc[p] = "git_revparse"
    /\ \E ok \in BOOLEAN :
          /\ RunCommand(p, GitRevParseCmd, RepoDir(p), ok, "git_checkout",
                        "co_except")
          /\ commit' = IF ok THEN [commit EXCEPT ![p] = Strip(MasterTip)]
                       ELSE commit
    /\ UNCHANGED <<argv, args, lock, fdLive, dirs, repo_dir, head, printed,
                   releaseCalls>>

\* git checkout {commit}; on success checkout_repo returns and main binds
\* repo_dir, commit
GitCheckout(p) ==
    /\ pc[p] = "git_checkout"
    /\ \E ok \in BOOLEAN :
          /\ RunCommand(p, GitCheckoutCmd(commit[p]), RepoDir(p), ok,
                        "benchmark", "co_except")
          /\ head' = IF ok
                     THEN [head EXCEPT ![p] =
                              Words(GitCheckoutCmd(commit[p]))[3]]
                     ELSE head
          /\ repo_dir' = IF ok THEN [repo_dir EXCEPT ![p] = RepoDir(p)]
                         ELSE repo_dir
    /\ UNCHANGED <<argv, args, lock, fdLive, dirs, commit, printed,
                   releaseCalls>>

CoExcept_NoCleanup(p) ==
    /\ pc[p] = "co_except"
    /\ pc' = [pc EXCEPT ![p] = "except"]
    /\ UNCHANGED <<argv, args, lock, fdLive, dirs, repo_dir, commit, head,
                   exc, printed, cmds, releaseCalls>>

\* except RuntimeError as e: shutil.rmtree(temp_dir); raise e
CoExcept(p) ==
    /\ pc[p] = "co_except"
    /\ dirs' = dirs \ Tree(TempDir(p))
    /\ pc' = [pc EXCEPT ![p] = "except"]
    /\ UNCHANGED <<argv, args, lock, fdLive, repo_dir, commit, head, exc,
                   printed, cmds, releaseCalls>>

\* ---- run_benchmark ----
BenchmarkCmd(time, users, state, shards, nodes, rump_up, user) ==
    <<"./scripts/start_benchmark.sh", " ">> \o time \o <<" ">>
        \o IntToStr(users) \o <<" ">> \o state \o <<" ">>
        \o IntToStr(shards) \o <<" ">> \o IntToStr(nodes) \o <<" ">>
        \o IntToStr(rump_up) \o <<" ">> \o user

\* the driver exits 0 or not; it runs inside repo_dir and may leave that
\* directory in place or not
RunBenchmark(p) ==
    /\ pc[p] = "benchmark"
    /\ \E ok \in BOOLEAN, kept \in BOOLEAN :
          /\ RunCommand(p, BenchmarkCmd(args[p].time, args[p].users,
                                        args[p].state, args[p].shards,
                                        args[p].nodes, args[p].rump_up,
                                        args[p].user),
                        repo_dir[p], ok, "rm_check", "except")
          /\ dirs' = IF kept THEN dirs ELSE dirs \ {repo_dir[p]}
    /\ UNCHANGED <<argv, args, lock, fdLive, repo_dir, commit, head, printed,
                   releaseCalls>>

Except_SkipRelease(p) ==
    /\ pc[p] = "except"
    /\ printed' = [printed EXCEPT ![p] = exc[p].text]
    /\ exc' = [exc EXCEPT ![p] = NoExc]
    /\ pc' = [pc EXCEPT ![p] = "fin_ws"]
    /\ UNCHANGED <<argv, args, lock, fdLive, dirs, repo_dir, commit, head,
                   cmds, releaseCalls>>

\* ---- main(): except RuntimeError as e: print(e) ----
Except(p) ==
    /\ pc[p] = "except"
    /\ printed' = [printed EXCEPT ![p] = exc[p].text]
    /\ exc' = [exc EXCEPT ![p] = NoExc]
    /\ pc' = [pc EXCEPT ![p] = "rm_check"]
    /\ UNCHANGED <<argv, args, lock, fdLive, dirs, repo_dir, commit, head,
                   cmds, releaseCalls>>

\* ---- main(): finally; remove_lock_file ----
\* the call, and its os.path.exists(LOCK_FILE)
RmCheck(p) ==
    /\ pc[p] = "rm_check"
    /\ releaseCalls' = [releaseCalls EXCEPT ![p] = @ + 1]
    /\ pc' = [pc EXCEPT ![p] = IF lock.exists THEN "rm_remove" ELSE "fin_ws"]
    /\ UNCHANGED <<argv, args, lock, fdLive, dirs, repo_dir, commit, head,
                   exc, printed, cmds>>

\* os.remove(LOCK_FILE): raises FileNotFoundError when the file is gone, and
\* the exception leaves the finally block
RmRemove(p) ==
    /\ pc[p] = "rm_remove"
    /\ IF lock.exists
       THEN /\ lock' = NoFile
            /\ fdLive' = [q \in Procs |-> FALSE]
            /\ exc' = exc
            /\ pc' = [pc EXCEPT ![p] = "fin_ws"]
       ELSE /\ lock' = lock
            /\ fdLive' = fdLive
            /\ exc' = [exc EXCEPT ![p] = FileNotFound("remove_lock_file")]
            /\ pc' = [pc EXCEPT ![p] = "crashed"]
    /\ UNCHANGED <<argv, args, dirs, repo_dir, commit, head, printed, cmds,
                   releaseCalls>>

\* if 'repo_dir' in locals() and os.path.exists(repo_dir):
\*     shutil.rmtree(os.path.dirname(repo_dir))
\* then main returns, or the exception still in flight ends the process
FinWs(p) ==
    /\ pc[p] = "fin_ws"
    /\ dirs' = IF repo_dir[p] # Unbound /\ repo_dir[p] \in dirs
               THEN dirs \ Tree(Dirname(repo_dir[p]))
               ELSE dirs
    /\ pc' = [pc EXCEPT ![p] = IF exc[p] = NoExc THEN "done" ELSE "crashed"]
    /\ UNCHANGED <<argv, args, lock, fdLive, repo_dir, commit, head, exc,
                   printed, cmds, releaseCalls>>

\* ---- specifications ----
Step(p) ==
    \/ ParseArgs(p)
    \/ ClCheck(p)
    \/ ClRead(p)
    \/ ClOpen(p)
    \/ ClWrite(p)
    \/ Mkdtemp(p)
    \/ GitConfig(p)
    \/ GitClone(p)
    \/ GitFetch(p)
    \/ GitRevParse(p)
    \/ GitCheckout(p)
    \/ CoExcept(p)
    \/ RunBenchmark(p)
    \/ Except(p)
    \/ RmCheck(p)
    \/ RmRemove(p)
    \/ FinWs(p)

\* concurrent invocations of the script on one host
Next == \E p \in Procs : Step(p)

Spec == Init /\ [][Next]_vars

Ended == {"usage_error", "done", "crashed"}

\* invocations of the script one after another: an invocation takes steps
\* only while every other one has not started or has ended
NextSeq ==
    \E p \in Procs :
        /\ \A q \in Procs \ {p} : pc[q] \in {"start"} \cup Ended
        /\ Step(p)

SpecSeq == Init /\ [][NextSeq]_vars

\* the argument validators on every string of at most MaxLen characters
NextParse == ParseArgs(1)

SpecParse == InitParse /\ [][NextParse]_vars

\* ---- properties ----
\* an invocation that is preparing its workspace or running the benchmark
Working ==
    {"mkdtemp", "git_config", "git_clone", "git_fetch", "git_revparse",
     "git_checkout", "co_except", "benchmark"}

\* C1: at most one invocation at a time is between its successful lock
\* acquisition and its lock release (preparing a workspace or running the
\* benchmark), whatever the interleaving.
C1_MutualExclusion ==
    Cardinality({p \in Procs : pc[p] \in Working}) <= 1

\* C2: once an invocation that got past argument parsing has terminated, no
\* lock marker of that run and no temporary directory of that run remains.
C2_NothingLeftBehind ==
    \A p \in Procs :
        pc[p] \in {"done", "crashed"} =>
            /\ TempDir(p) \notin dirs
            /\ ~(lock.exists /\ lock.by = p)

\* C4: if the lock marker is absent, no invocation is in LockAcquired,
\* WorkspaceReady or BenchmarkRunning.
C4_AbsentMeansFree ==
    ~lock.exists => \A p \in Procs : pc[p] \notin Working

\* C8: remove_lock_file never raises, also when interleaved with the lock
\* operations of other invocations.
C8_ReleaseNeverErrors ==
    \A p \in Procs : exc[p].where # "remove_lock_file"

\* create_lock_file of p raised "... already running benchmark" (in flight,
\* or already printed by main)
AcqFailed(p) ==
    \/ exc[p].type = "RuntimeError" /\ exc[p].where = "create_lock_file"
    \/ /\ printed[p] # <<>>
       /\ printed[p][Len(printed[p])] = " already running benchmark"

\* C5: an invocation whose lock acquisition failed with AlreadyRunning
\* creates no temporary directory and runs no external command (no git
\* command, no benchmark driver).
C5_AlreadyRunningSkipsRun ==
    \A p \in Procs :
        AcqFailed(p) =>
            /\ cmds[p] = <<>>
            /\ TempDir(p) \notin dirs
            /\ repo_dir[p] = Unbound
            /\ pc[p] \notin Working

C5_Witness ==
    \E p \in Procs : pc[p] = "done" /\ AcqFailed(p)

\* argument validation of the command line of p fails
Malformed(a) == ~parse_time(a.time).ok \/ ~parse_state(a.state).ok

\* C6: when argument validation fails the invocation terminates at once:
\* its step leaves the lock marker, the directories and the command log
\* unchanged, remove_lock_file is not called, and it takes no further step.
C6_ValidationFailureNoEffect ==
    [][\A p \in Procs :
          /\ (pc[p] = "start" /\ pc'[p] # "start" /\ Malformed(argv[p])) =>
                /\ pc'[p] = "usage_error"
                /\ lock' = lock
                /\ dirs' = dirs
                /\ cmds' = cmds
                /\ releaseCalls' = releaseCalls
          /\ pc[p] = "usage_error" =>
                /\ pc'[p] = "usage_error"
                /\ cmds'[p] = <<>>
                /\ releaseCalls'[p] = 0
                /\ TempDir(p) \notin dirs']_vars

C6_Witness ==
    \E p \in Procs : pc[p] = "usage_error" /\ Malformed(argv[p])

\* C7 as stated: remove_lock_file has been called exactly once when an
\* invocation has ended, on every exit path, validation failure included.
C7_ReleaseOnEveryExit ==
    \A p \in Procs : pc[p] \in Ended => releaseCalls[p] = 1

\* C7 amended: remove_lock_file is called at most once, exactly once by the
\* end of every invocation that got past argument parsing (normal completion,
\* failed acquisition, checkout failure, benchmark failure), and not at all
\* when argument validation fails.
C7_ReleaseOncePastParsing ==
    \A p \in Procs :
        /\ releaseCalls[p] <= 1
        /\ pc[p] \in {"done", "crashed"} => releaseCalls[p] = 1
        /\ pc[p] \in {"rm_remove", "fin_ws"} => releaseCalls[p] = 1
        /\ pc[p] \in {"start", "usage_error"} => releaseCalls[p] = 0

C7_Witness ==
    \E p, q \in Procs :
        /\ pc[p] = "done" /\ printed[p] # <<>> /\ ~AcqFailed(p)
        /\ pc[q] = "usage_error"

\* the steps of one call of create_lock_file by p, with the holder named in
\* the error being Reported(content of the marker)
CreateLockStep(p, Reported(_)) ==
    /\ (pc[p] = "cl_check" /\ pc'[p] # "cl_check") =>
          /\ lock' = lock
          /\ pc'[p] = IF lock.exists THEN "cl_read" ELSE "cl_open"
    /\ (pc[p] = "cl_read" /\ pc'[p] # "cl_read") =>
          /\ lock.exists
          /\ lock' = lock
          /\ pc'[p] = "except"
          /\ exc'[p].type = "RuntimeError"
          /\ exc'[p].text =
                Reported(lock.content) \o <<" already running benchmark">>
    /\ (pc[p] = "cl_open" /\ pc'[p] # "cl_open") => ~lock.exists
    /\ (pc[p] = "cl_write" /\ pc'[p] # "cl_write") =>
          /\ pc'[p] = "mkdtemp"
          /\ exc'[p] = NoExc
          /\ lock'.exists
          /\ lock'.content = args[p].user

C9_DriverInvocation ==
    \A p \in Procs :
        \A i \in 1..Len(cmds[p]) :
            cmds[p][i].argv[1] = <<"./scripts/start_benchmark.sh">> =>
                /\ Tail(cmds[p][i].argv) =
                      <<args[p].time, IntToStr(args[p].users), args[p].state,
                        IntToStr(args[p].shards), IntToStr(args[p].nodes),
                        IntToStr(args[p].rump_up), args[p].user>>
                /\ cmds[p][i].cwd = RepoDir(p)
                /\ args[p].commit # NoCommit => head[p] = args[p].commit

\* a digit sequence followed by exactly one of h, m, s
WellFormedTime(s) ==
    /\ Len(s) >= 2
    /\ \A i \in 1..(Len(s) - 1) : s[i] \in Digits
    /\ s[Len(s)] \in TimeUnits

\* a digit sequence optionally followed by one of K, M, G
WellFormedState(s) ==
    /\ Len(s) >= 1
    /\ \A i \in 1..(Len(s) - 1) : s[i] \in Digits
    /\ \/ s[Len(s)] \in Digits
       \/ Len(s) >= 2 /\ s[Len(s)] \in StateUnits

\* C10: parse_time and parse_state return a well-formed string unchanged and
\* fail on every other string, a string with a trailing newline included.
C10_ValidatorsExact ==
    \A p \in Procs :
        pc[p] # "start" =>
            IF WellFormedTime(argv[p].time) /\ WellFormedState(argv[p].state)
            THEN /\ pc[p] # "usage_error"
                 /\ args[p].time = argv[p].time
                 /\ args[p].state = argv[p].state
            ELSE pc[p] = "usage_error"

\* C11: a lock marker is removed only by the invocation that wrote it; an
\* invocation that did not acquire the lock leaves the marker of the holder,
\* or of a run that was killed, in place.
C11_OnlyWriterRemoves ==
    [][\A p \in Procs :
          (pc'[p] # pc[p] /\ lock.exists /\ ~lock'.exists) => lock.by = p]_vars

\* C12: the lock is released only after the run's workspace has been torn
\* down: once remove_lock_file has been called, no temporary directory of the
\* run is on disk.
C12_TeardownBeforeRelease ==
    \A p \in Procs : releaseCalls[p] > 0 => TempDir(p) \notin dirs

\* C13: the two cleanup steps do not depend on each other: also when the lock
\* removal raised, the workspace that checkout_repo returned is removed by
\* the time the invocation has ended.
C13_CleanupUnchained ==
    \A p \in Procs :
        (pc[p] \in Ended /\ exc[p].where = "remove_lock_file"
                        /\ repo_dir[p] # Unbound) =>
            repo_dir[p] \notin dirs

\* C15: whenever checkout_repo succeeded, the top-level temporary directory has
\* been removed when main returns, whether the benchmark succeeded or failed
\* and whether or not the repository subdirectory still exists.
C15_TeardownUnconditional ==
    \A p \in Procs :
        (pc[p] = "done" /\ repo_dir[p] # Unbound) => TempDir(p) \notin dirs

\* checkout_repo of p raised and the exception has reached main
CheckoutFailed(p) ==
    /\ pc[p] \in {"except", "rm_check", "rm_remove", "fin_ws", "done",
                  "crashed"}
    /\ cmds[p] # <<>>
    /\ repo_dir[p] = Unbound

\* C14: when a step of checkout_repo fails, the whole temporary directory is
\* gone by the time the failure reaches main, and main's cleanup removes
\* nothing more; when checkout_repo succeeds, main has the repository path
\* inside the temporary directory and the commit that was checked out.
C14_CheckoutCleansUpOnFailure ==
    /\ [](\A p \in Procs :
             /\ CheckoutFailed(p) =>
                   TempDir(p) \notin dirs /\ RepoDir(p) \notin dirs
             /\ pc[p] = "benchmark" =>
                   /\ repo_dir[p] = TempDir(p) \o "/nearcore"
                   /\ {TempDir(p), repo_dir[p]} \subseteq dirs
                   /\ commit[p] # <<>>
                   /\ head[p] = commit[p]
                   /\ args[p].commit # NoCommit => commit[p] = args[p].commit)
    /\ [][\A p \in Procs :
             (pc[p] = "fin_ws" /\ pc'[p] # "fin_ws" /\ CheckoutFailed(p)) =>
                 dirs' = dirs]_vars

\* a failure after the clone had created the repository directory
C14_Witness ==
    \E p \in Procs :
        /\ pc[p] = "except" /\ CheckoutFailed(p)
        /\ Len(cmds[p]) >= 3
        /\ TempDir(p) \notin dirs

\* the benchmark driver is among the commands p has run
DriverRun(p) ==
    \E i \in 1..Len(cmds[p]) :
        cmds[p][i].argv[1] = <<"./scripts/start_benchmark.sh">>

\* a command of p failed after p had acquired the lock, and main printed it
FailedAfterAcquire(p) ==
    printed[p] # <<>> /\ printed[p][1] = "Command '"

\* C16: the run goes Idle, LockAcquired, WorkspaceReady, BenchmarkRunning,
\* Done in that order: workspace preparation starts only after
\* create_lock_file returned, the driver is run only after checkout_repo
\* returned, and a run that fails after LockAcquired has had its workspace
\* torn down and remove_lock_file called when the process ends.
C16_RunOrder ==
    /\ [](\A p \in Procs :
             /\ DriverRun(p) => repo_dir[p] # Unbound /\ head[p] # NoCommit
             /\ (pc[p] \in Ended /\ FailedAfterAcquire(p)) =>
                   releaseCalls[p] = 1 /\ TempDir(p) \notin dirs)
    /\ [][\A p \in Procs :
             /\ (pc'[p] = "mkdtemp" /\ pc[p] # "mkdtemp") => pc[p] = "cl_write"
             /\ (pc'[p] = "benchmark" /\ pc[p] # "benchmark") =>
                   pc[p] = "git_checkout"
             /\ (pc'[p] = "done" /\ pc[p] # "done") => pc[p] = "fin_ws"]_vars

\* Every invocation that can take a step eventually takes one: the processes
\* are scheduled, and every external command (git, the benchmark driver)
\* eventually returns.
Fairness == \A p \in Procs : WF_vars(Step(p))

SpecFair == Init /\ [][Next]_vars /\ Fairness

\* the same for invocations one after another: while an invocation can take
\* a step, one is eventually taken
SpecSeqFair == Init /\ [][NextSeq]_vars /\ WF_vars(NextSeq)

\* C17: if every external command eventually returns, every invocation
\* eventually terminates (Done, Failed, or the usage error), and from then on
\* no marker that it wrote is on disk.
C17_Termination ==
    <>[](\A p \in Procs :
            pc[p] \in Ended /\ ~(lock.exists /\ lock.by = p))

\* all invocations have ended and one of them had acquired the lock and run
\* external commands
C17_Witness ==
    /\ \A p \in Procs : pc[p] \in Ended
    /\ \E p \in Procs : pc[p] = "done" /\ DriverRun(p)
    /\ ~lock.exists

====
